---------------------------- MODULE Spec2Model ----------------------------
(***************************************************************************)
(* A model of docsim.py: the DocSim / DocSim_threaded similarity engines.  *)
(*                                                                         *)
(* One engine object is constructed (either class, any model argument, any *)
(* stopwords argument); setup_model runs in the constructor (DocSim) or in *)
(* a daemon thread (DocSim_threaded); client threads call similarity_query *)
(* on the constructed object.                                              *)
(*                                                                         *)
(* Numbers are fixed point: term similarities and idf weights are tenths,  *)
(* scores are hundredths.  Document indexes and term ids are 0-based, as   *)
(* in Python; TLA+ sequences are 1-based, so position p holds index p-1.   *)
(***************************************************************************)
EXTENDS Integers, Sequences, FiniteSets, TLC

\* Longest document list a caller passes.
MaxDocs == 2

\* _find_similar_terms(..., term_limit=5)
term_limit == 5

\* SparseTermSimilarityMatrix(..., nonzero_limit=100)
nonzero_limit == 100

default_model == "glove-wiki-gigaword-50"

\* The hard-coded English stopword list (the members the model's texts meet).
nltk_stop_words == {"the", "and", "are"}

\* A caller-supplied stopword collection.
CustomStopwords == {"bike", "and"}

\* The client threads that call similarity_query.
Callers == {"t1", "t2"}

\* Values a caller may pass as the model argument: nothing, a model name, a
\* pre-initialised Word2VecKeyedVectors object, and an object of another type.
ModelArgs == {"None", "glove-twitter-25", "myModel", "42"}

IsKeyedVectors(m) == m = "myModel"

IsStr(m) == m = "glove-twitter-25"

\* Raw texts: a text is a sequence of lexemes separated by blanks.
Strings == { <<"The">>, <<"Car">>, <<"<img src=x>", "Bike">> }

\* Alphabetical order of the tokens (Python's sorted() on str).
TokenOrder == <<"bike", "car", "image_token", "the", "url_token">>

Range(s) == { s[i] : i \in DOMAIN s }

RECURSIVE Flatten(_)
Flatten(ss) == IF ss = <<>> THEN <<>> ELSE Head(ss) \o Flatten(Tail(ss))

RECURSIVE SumSeq(_)
SumSeq(s) == IF s = <<>> THEN 0 ELSE Head(s) + SumSeq(Tail(s))

Reverse(s) == [i \in 1..Len(s) |-> s[Len(s) + 1 - i]]

Min(a, b) == IF a < b THEN a ELSE b

\* The members of a finite set of numbers, ascending.
RECURSIVE SortedIds(_)
SortedIds(S) ==
    IF S = {} THEN <<>>
    ELSE LET m == CHOOSE x \in S : \A y \in S : x <= y
         IN  <<m>> \o SortedIds(S \ {m})

\* floor(sqrt(n)), by bisection on lo <= sqrt(n) < hi
RECURSIVE ISqrtIn(_, _, _)
ISqrtIn(n, lo, hi) ==
    IF hi - lo <= 1 THEN lo
    ELSE LET mid == (lo + hi) \div 2
         IN  IF mid * mid <= n THEN ISqrtIn(n, mid, hi) ELSE ISqrtIn(n, lo, mid)

ISqrt(n) == ISqrtIn(n, 0, 46340)

\* The permutations of 1..n, as sequences.
Permutations1(n) ==
    { p \in [1..n -> 1..n] : \A i, j \in 1..n : p[i] = p[j] => i = j }

\* Option values: an attribute that was never assigned is Unset.
Unset == <<>>

Some(x) == <<x>>

-----------------------------------------------------------------------------
(* preprocess *)

\* sub(r'<img[^<>]+(>|$)', " image_token ", doc)
SubImg(lex) == IF lex = "<img src=x>" THEN "image_token" ELSE lex

\* sub(r'<[^<>]+(>|$)', " ", doc)
SubTag(lex) == IF lex \in {"<img src=x>", "<b>"} THEN " " ELSE lex

\* sub(r'\[img_assist[^]]*?\]', " ", doc)
SubImgAssist(lex) == IF lex = "[img_assist|nid=1]" THEN " " ELSE lex

\* sub(r'http[s]?://...', " url_token ", doc)
SubUrl(lex) == IF lex = "http://example.com" THEN "url_token" ELSE lex

\* gensim simple_preprocess(doc, min_len=0, max_len=inf): lowercase, split on
\* non-word characters.
Lower(lex) ==
    CASE lex = "The"  -> "the"
      [] lex = "Car"  -> "car"
      [] lex = "Bike" -> "bike"
      [] OTHER        -> lex

simple_preprocess(doc) ==
    SelectSeq([i \in 1..Len(doc) |-> Lower(doc[i])], LAMBDA w : w # " ")

\* preprocess(self, doc) with self.stopwords = stopwords
preprocess(doc, stopwords) ==
    LET cleaned == [i \in 1..Len(doc) |->
                       SubUrl(SubImgAssist(SubTag(SubImg(doc[i]))))]
    IN  SelectSeq(simple_preprocess(cleaned), LAMBDA token : token \notin stopwords)

-----------------------------------------------------------------------------
(* gensim: Dictionary, TfidfModel, WordEmbeddingSimilarityIndex,           *)
(* SparseTermSimilarityMatrix, SoftCosineSimilarity                        *)

SortedTokens(S) == SelectSeq(TokenOrder, LAMBDA w : w \in S)

\* Dictionary.add_documents: the tokens of each document that are new get
\* the next ids, in sorted order within the document.
RECURSIVE Id2Token(_, _)
Id2Token(docs, known) ==
    IF docs = <<>> THEN known
    ELSE Id2Token(Tail(docs),
                  known \o SortedTokens(Range(Head(docs)) \ Range(known)))

\* Dictionary(documents): token2id, dfs (document frequency by id), num_docs
Dictionary(docs) ==
    LET id2token == Id2Token(docs, <<>>)
        k == Len(id2token)
    IN  [ token2id |-> [w \in Range(id2token) |->
                           (CHOOSE p \in 1..k : id2token[p] = w) - 1],
          dfs      |-> [i \in 0..(k - 1) |->
                           Cardinality({d \in DOMAIN docs :
                                          id2token[i + 1] \in Range(docs[d])})],
          num_docs |-> Len(docs) ]

\* round(10 * log2(n)) for n = 1..8
Log2x10 == <<0, 10, 16, 20, 23, 26, 28, 30>>

\* gensim df2idf: log2(totaldocs / docfreq)
df2idf(docfreq, totaldocs) == Log2x10[totaldocs] - Log2x10[docfreq]

\* TfidfModel(dictionary=dictionary)
TfidfModel(dictionary) ==
    [ idfs |-> [i \in DOMAIN dictionary.dfs |->
                   df2idf(dictionary.dfs[i], dictionary.num_docs)] ]

\* dictionary.doc2bow(document): counts by id; tokens the dictionary does not
\* hold are skipped.
doc2bow(dictionary, document) ==
    [i \in Range(dictionary.token2id) |->
        Cardinality({p \in DOMAIN document :
                       /\ document[p] \in DOMAIN dictionary.token2id
                       /\ dictionary.token2id[document[p]] = i})]

\* tfidf[bow]: term frequency times idf; ids the model does not hold weigh 0.
TfidfVector(tfidf, bow) ==
    [i \in DOMAIN bow |->
        IF i \in DOMAIN tfidf.idfs THEN bow[i] * tfidf.idfs[i] ELSE 0]

\* The word vectors: the words a model holds and the similarity of two
\* distinct words (cosine to the power 2.0, in tenths).
KeyedWords(model) ==
    IF model = "myModel" THEN {"the", "car"} ELSE {"the", "car", "bike"}

WordSimilarity(model, w1, w2) ==
    IF {w1, w2} = {"car", "bike"} /\ {w1, w2} \subseteq KeyedWords(model)
    THEN (IF model = default_model THEN 5 ELSE 3)
    ELSE 0

\* WordEmbeddingSimilarityIndex(model)
WordEmbeddingSimilarityIndex(model) == [ keyedvectors |-> model ]

\* SparseTermSimilarityMatrix(similarity_index, dictionary, tfidf, nonzero_limit):
\* 1.0 on the diagonal, the index's similarity elsewhere; a row keeps at most
\* nonzero_limit neighbours.
SparseTermSimilarityMatrix(similarity_index, dictionary, tfidf, limit) ==
    LET ids == DOMAIN dictionary.dfs
        tok(i) == CHOOSE w \in DOMAIN dictionary.token2id :
                      dictionary.token2id[w] = i
        sim(i, j) == WordSimilarity(similarity_index.keyedvectors, tok(i), tok(j))
        kept(i) == IF Cardinality({j \in ids : j # i /\ sim(i, j) > 0}) <= limit
                   THEN ids ELSE {}
    IN  [ matrix |-> [i \in ids |-> [j \in ids |->
                        IF i = j THEN 10
                        ELSE IF j \in kept(i) /\ i \in kept(j) THEN sim(i, j)
                        ELSE 0]] ]

\* x^T M y; ids the matrix does not hold contribute nothing.
InnerProduct(x, y, M) ==
    LET ids == SortedIds(DOMAIN x \cap DOMAIN y \cap DOMAIN M)
        n == Len(ids)
    IN  SumSeq([p \in 1..(n * n) |->
                  LET i == ids[((p - 1) \div n) + 1]
                      j == ids[((p - 1) % n) + 1]
                  IN  x[i] * M[i][j] * y[j]])

\* SoftCosineSimilarity(corpus, similarity_matrix)[query]: the normalised
\* inner product, 0 when either vector has norm 0.  Hundredths.
SoftCosine(q, d, M) ==
    LET qq == InnerProduct(q, q, M)
        dd == InnerProduct(d, d, M)
        qd == InnerProduct(q, d, M)
    IN  IF qq = 0 \/ dd = 0 THEN 0 ELSE (100 * qd) \div ISqrt(qq * dd)

\* _softcossim(self, query, documents), reading self.dictionary, self.tfidf and
\* self.similarity_matrix
_softcossim(query, documents, dictionary, tfidf, similarity_matrix) ==
    LET q == TfidfVector(tfidf, doc2bow(dictionary, query))
    IN  [d \in 1..Len(documents) |->
            SoftCosine(q, TfidfVector(tfidf, doc2bow(dictionary, documents[d])),
                       similarity_matrix.matrix)]

\* np.argsort(scores): the orders that put the scores ascending, as sequences
\* of 0-based indexes.  The default kind is quicksort, which is not stable:
\* the order of equal scores is whatever the build produces.
argsort(scores) ==
    { [i \in 1..Len(scores) |-> p[i] - 1] : p \in
        { r \in Permutations1(Len(scores)) :
            \A i \in 1..(Len(scores) - 1) : scores[r[i]] <= scores[r[i + 1]] } }

\* zip(...) of two and of three lists: as long as the shortest.
Zip2(a, b) == [i \in 1..Min(Len(a), Len(b)) |-> <<a[i], b[i]>>]

Zip3(a, b, c) ==
    [i \in 1..Min(Len(a), Min(Len(b), Len(c))) |-> <<a[i], b[i], c[i]>>]

\* The terms _find_similar_terms looks up with self.dictionary.token2id[...]
LookedUp(query, corpus) ==
    IF query = <<>> THEN {} ELSE Range(query) \cup Range(Flatten(corpus))

\* sorted(results_this_doc, reverse=True, key=score)[:term_limit] for one query
\* term and one document: the (word, score) pairs with score > 0.0, by score
\* descending.  `for word in set(document)` fixes no order among equal scores.
ResultsThisDoc(term, document, dictionary, similarity_matrix, limit) ==
    LET idx1 == dictionary.token2id[term]
        score(word) == similarity_matrix.matrix[idx1][dictionary.token2id[word]]
        words == { w \in Range(document) : score(w) > 0 }
        n == Cardinality(words)
    IN  { SubSeq([i \in 1..n |-> <<o[i], score(o[i])>>], 1, Min(n, limit)) :
            o \in { s \in [1..n -> words] :
                      /\ \A i, j \in 1..n : s[i] = s[j] => i = j
                      /\ \A i \in 1..(n - 1) : score(s[i]) >= score(s[i + 1]) } }

\* _find_similar_terms(self, query, corpus, term_limit): one list per query
\* term and document, in the order (term, document).  The set of the lists
\* the call can return.
_find_similar_terms(query, corpus, dictionary, similarity_matrix, limit) ==
    LET nd == Len(corpus)
        n == Len(query) * nd
        at(p) == ResultsThisDoc(query[((p - 1) \div nd) + 1],
                                corpus[((p - 1) % nd) + 1],
                                dictionary, similarity_matrix, limit)
    IN  { s \in [1..n -> UNION { at(p) : p \in 1..n }] :
            \A p \in 1..n : s[p] \in at(p) }

-----------------------------------------------------------------------------
(* The engine object and its callers *)

VARIABLES
    cls,                \* the class constructed: "DocSim" or "DocSim_threaded"
    model_arg,          \* __init__'s model argument
    stopwords_arg,      \* __init__'s stopwords argument: Unset is None
    init_pc,            \* where __init__ is
    setup_pc,           \* where setup_model is
    model,              \* self.model
    similarity_index,   \* self.similarity_index
    model_ready,        \* self.model_ready
    stopwords,          \* self.stopwords
    dictionary,         \* self.dictionary
    tfidf,              \* self.tfidf
    similarity_matrix,  \* self.similarity_matrix
    pc,                 \* where each caller's similarity_query is
    frame               \* each caller's arguments, locals and outcome

vars == << cls, model_arg, stopwords_arg, init_pc, setup_pc, model,
           similarity_index, model_ready, stopwords, dictionary, tfidf,
           similarity_matrix, pc, frame >>

config == << cls, model_arg, stopwords_arg >>

fields == << dictionary, tfidf, similarity_matrix >>

\* The document lists a caller passes.  What gensim returns for an empty
\* corpus is not decided by docsim.py, so the lists hold a document.
DocumentLists == UNION { [1..n -> Strings] : n \in 1..MaxDocs }

NoFrame ==
    [ query_string |-> <<>>, documents |-> <<>>, explain |-> FALSE,
      corpus |-> <<>>, query |-> <<>>, scores |-> <<>>,
      sorted_indexes |-> <<>>, ret |-> "", results |-> <<>> ]

Init ==
    /\ cls \in {"DocSim", "DocSim_threaded"}
    /\ model_arg \in ModelArgs
    /\ stopwords_arg \in {Unset, Some(CustomStopwords)}
    /\ init_pc = "start"
    /\ setup_pc = "idle"
    /\ model = "unset"
    /\ similarity_index = Unset
    /\ model_ready = FALSE
    /\ stopwords = Unset
    /\ dictionary = Unset
    /\ tfidf = Unset
    /\ similarity_matrix = Unset
    /\ pc = [t \in Callers |-> "idle"]
    /\ frame = [t \in Callers |-> NoFrame]

\* DocSim.__init__: self.setup_model(model), run by the constructing thread.
InitSetupModel ==
    /\ cls = "DocSim"
    /\ init_pc = "start"
    /\ init_pc' = "setup"
    /\ setup_pc' = "load"
    /\ UNCHANGED << config, model, similarity_index, model_ready, stopwords,
                    fields, pc, frame >>

\* DocSim_threaded.__init__: self._threaded_load(model) starts the daemon
\* thread that runs setup_model, and returns.
_threaded_load ==
    /\ cls = "DocSim_threaded"
    /\ init_pc = "start"
    /\ init_pc' = "stopwords"
    /\ setup_pc' = "load"
    /\ UNCHANGED << config, model, similarity_index, model_ready, stopwords,
                    fields, pc, frame >>

\* A mutation of SetupLoadModel: the readiness flag is raised as soon as the
\* model is assigned, before the similarity index exists.
SetupLoadModelReadyEarly ==
    /\ setup_pc = "load"
    /\ \/ IsKeyedVectors(model_arg) /\ model' = model_arg
       \/ IsStr(model_arg) /\ model' = model_arg
       \/ model_arg = "None" /\ model' = default_model
    /\ model_ready' = TRUE
    /\ setup_pc' = "index"
    /\ UNCHANGED << cls, model_arg, stopwords_arg, init_pc, similarity_index,
                    stopwords, dictionary, tfidf, similarity_matrix, pc, frame >>

\* setup_model: the three branches that assign self.model.
SetupLoadModel ==
    /\ setup_pc = "load"
    /\ \/ IsKeyedVectors(model_arg) /\ model' = model_arg
       \/ IsStr(model_arg) /\ model' = model_arg
       \/ model_arg = "None" /\ model' = default_model
    /\ setup_pc' = "index"
    /\ UNCHANGED << config, init_pc, similarity_index, model_ready, stopwords,
                    fields, pc, frame >>

\* setup_model: raise ValueError('Unable to load word vector model').  In
\* DocSim the error leaves __init__; in DocSim_threaded it ends the thread.
SetupUnsupported ==
    /\ setup_pc = "load"
    /\ ~IsKeyedVectors(model_arg) /\ ~IsStr(model_arg) /\ model_arg # "None"
    /\ setup_pc' = "raised"
    /\ init_pc' = IF cls = "DocSim" THEN "raised" ELSE init_pc
    /\ UNCHANGED << config, model, similarity_index, model_ready, stopwords,
                    fields, pc, frame >>

\* setup_model: self.similarity_index = WordEmbeddingSimilarityIndex(self.model)
SetupSimilarityIndex ==
    /\ setup_pc = "index"
    /\ similarity_index' = Some(WordEmbeddingSimilarityIndex(model))
    /\ setup_pc' = "ready"
    /\ UNCHANGED << config, init_pc, model, model_ready, stopwords, fields,
                    pc, frame >>

\* setup_model: self.model_ready = True, and the return.
SetupReady ==
    /\ setup_pc = "ready"
    /\ model_ready' = TRUE
    /\ setup_pc' = "done"
    /\ init_pc' = IF cls = "DocSim" THEN "stopwords" ELSE init_pc
    /\ UNCHANGED << config, model, similarity_index, stopwords, fields, pc,
                    frame >>

\* DocSim.__init__: the stopwords, and the return.
InitStopwords ==
    /\ cls = "DocSim"
    /\ init_pc = "stopwords"
    /\ stopwords' = IF stopwords_arg = Unset THEN Some(nltk_stop_words)
                    ELSE stopwords_arg
    /\ init_pc' = "returned"
    /\ UNCHANGED << config, setup_pc, model, similarity_index, model_ready,
                    fields, pc, frame >>

\* DocSim_threaded.__init__: the stopwords (there is no else), and the return.
ThreadedInitStopwords ==
    /\ cls = "DocSim_threaded"
    /\ init_pc = "stopwords"
    /\ stopwords' = IF stopwords_arg = Unset THEN Some(nltk_stop_words)
                    ELSE stopwords
    /\ init_pc' = "returned"
    /\ UNCHANGED << config, setup_pc, model, similarity_index, model_ready,
                    fields, pc, frame >>

\* A mutation of BuildDocuments: the dictionary is built from the corpus alone.
BuildDocumentsCorpusOnly(corpus, query) == corpus

\* corpus+[query], the documents self.dictionary is built from
BuildDocuments(corpus, query) == Append(corpus, query)

\* A caller holds the engine once its constructor has returned.
CanCall(t) == init_pc = "returned" /\ pc[t] = "idle"

Args(q, docs, e) ==
    [NoFrame EXCEPT !.query_string = q, !.documents = docs, !.explain = e]

\* A mutation of QueryNotReady: the readiness test comes after the dictionary
\* is built.
QueryNotReadyAfterBuild(t) ==
    /\ CanCall(t)
    /\ ~model_ready
    /\ \E q \in Strings, docs \in DocumentLists, e \in BOOLEAN :
          /\ frame' = [frame EXCEPT ![t] = [Args(q, docs, e) EXCEPT !.ret = "None"]]
          /\ dictionary' = Some(Dictionary(<<simple_preprocess(q)>>))
    /\ pc' = [pc EXCEPT ![t] = "returned"]
    /\ UNCHANGED << cls, model_arg, stopwords_arg, init_pc, setup_pc, model,
                    similarity_index, model_ready, stopwords, tfidf,
                    similarity_matrix >>

\* similarity_query with self.model_ready false: return None.
QueryNotReady(t) ==
    /\ CanCall(t)
    /\ ~model_ready
    /\ \E q \in Strings, docs \in DocumentLists, e \in BOOLEAN :
          frame' = [frame EXCEPT ![t] = [Args(q, docs, e) EXCEPT !.ret = "None"]]
    /\ pc' = [pc EXCEPT ![t] = "returned"]
    /\ UNCHANGED << config, init_pc, setup_pc, model, similarity_index,
                    model_ready, stopwords, fields >>

\* similarity_query on a ready engine whose stopwords attribute was never
\* assigned: preprocess raises AttributeError.
QueryNoStopwords(t) ==
    /\ CanCall(t)
    /\ model_ready
    /\ stopwords = Unset
    /\ \E q \in Strings, docs \in DocumentLists, e \in BOOLEAN :
          frame' = [frame EXCEPT ![t] =
                      [Args(q, docs, e) EXCEPT !.ret = "AttributeError"]]
    /\ pc' = [pc EXCEPT ![t] = "raised"]
    /\ UNCHANGED << config, init_pc, setup_pc, model, similarity_index,
                    model_ready, stopwords, fields >>

\* similarity_query on a ready engine, up to the call of _softcossim: the
\* corpus and the query are preprocessed, and self.dictionary, self.tfidf and
\* self.similarity_matrix are assigned.
QueryBuild(t) ==
    /\ CanCall(t)
    /\ model_ready
    /\ stopwords # Unset
    /\ \E q \in Strings, docs \in DocumentLists, e \in BOOLEAN :
          LET corpus == [d \in 1..Len(docs) |-> preprocess(docs[d], stopwords[1])]
              query == preprocess(q, stopwords[1])
              dict == Dictionary(BuildDocuments(corpus, query))
              tf == TfidfModel(dict)
          IN  /\ dictionary' = Some(dict)
              /\ tfidf' = Some(tf)
              /\ similarity_matrix' =
                     Some(SparseTermSimilarityMatrix(similarity_index[1], dict,
                                                     tf, nonzero_limit))
              /\ frame' = [frame EXCEPT ![t] =
                             [Args(q, docs, e) EXCEPT !.corpus = corpus,
                                                      !.query = query]]
    /\ pc' = [pc EXCEPT ![t] = "built"]
    /\ UNCHANGED << config, init_pc, setup_pc, model, similarity_index,
                    model_ready, stopwords >>

\* scores = self._softcossim(query, corpus); the argsort; and, without
\* explain, the results and the return.
QueryScore(t) ==
    /\ pc[t] = "built"
    /\ LET f == frame[t]
           scores == _softcossim(f.query, f.corpus, dictionary[1], tfidf[1],
                                 similarity_matrix[1])
       IN  \E order \in argsort(scores) :
              LET sorted_indexes == Reverse(order)
                  sorted_scores == [i \in 1..Len(sorted_indexes) |->
                                       scores[sorted_indexes[i] + 1]]
              IN  IF f.explain
                  THEN /\ frame' = [frame EXCEPT ![t] =
                                      [f EXCEPT !.scores = scores,
                                                !.sorted_indexes = sorted_indexes]]
                       /\ pc' = [pc EXCEPT ![t] = "scored"]
                  ELSE /\ frame' = [frame EXCEPT ![t] =
                                      [f EXCEPT !.scores = scores,
                                                !.sorted_indexes = sorted_indexes,
                                                !.ret = "list",
                                                !.results = Zip2(sorted_indexes,
                                                                 sorted_scores)]]
                       /\ pc' = [pc EXCEPT ![t] = "returned"]
    /\ UNCHANGED << config, init_pc, setup_pc, model, similarity_index,
                    model_ready, stopwords, fields >>

\* explain: similar_terms = self._find_similar_terms(query, corpus), the
\* results and the return.  self.dictionary.token2id[...] raises KeyError for
\* a term that self.dictionary does not hold.
QueryExplain(t) ==
    /\ pc[t] = "scored"
    /\ LET f == frame[t]
           sorted_scores == [i \in 1..Len(f.sorted_indexes) |->
                                f.scores[f.sorted_indexes[i] + 1]]
       IN  IF LookedUp(f.query, f.corpus) \subseteq DOMAIN dictionary[1].token2id
           THEN /\ \E similar_terms \in
                       _find_similar_terms(f.query, f.corpus, dictionary[1],
                                           similarity_matrix[1], term_limit) :
                      frame' = [frame EXCEPT ![t] =
                                  [f EXCEPT !.ret = "list",
                                            !.results = Zip3(f.sorted_indexes,
                                                             sorted_scores,
                                                             similar_terms)]]
                /\ pc' = [pc EXCEPT ![t] = "returned"]
           ELSE /\ frame' = [frame EXCEPT ![t].ret = "KeyError"]
                /\ pc' = [pc EXCEPT ![t] = "raised"]
    /\ UNCHANGED << config, init_pc, setup_pc, model, similarity_index,
                    model_ready, stopwords, fields >>

\* The caller has its result or its error, and is free to call again.
QueryEnd(t) ==
    /\ pc[t] \in {"returned", "raised"}
    /\ pc' = [pc EXCEPT ![t] = "idle"]
    /\ frame' = [frame EXCEPT ![t] = NoFrame]
    /\ UNCHANGED << config, init_pc, setup_pc, model, similarity_index,
                    model_ready, stopwords, fields >>

Construct ==
    \/ InitSetupModel
    \/ _threaded_load
    \/ SetupLoadModel
    \/ SetupUnsupported
    \/ SetupSimilarityIndex
    \/ SetupReady
    \/ InitStopwords
    \/ ThreadedInitStopwords

Step(t) ==
    \/ QueryScore(t)
    \/ QueryExplain(t)
    \/ QueryEnd(t)

Call(t) ==
    \/ QueryNotReady(t)
    \/ QueryNoStopwords(t)
    \/ QueryBuild(t)

\* No other caller is inside similarity_query.
Serial(t) == \A u \in Callers \ {t} : pc[u] = "idle"

\* The engine from its construction on; its callers call one at a time, each
\* as often as it likes.
Next ==
    \/ Construct
    \/ \E t \in Callers : (Serial(t) /\ Call(t)) \/ Step(t)

Spec == Init /\ [][Next]_vars

\* A ready DocSim engine: DocSim(), after __init__ has returned.
ConcInit ==
    /\ cls = "DocSim"
    /\ model_arg = "None"
    /\ stopwords_arg = Unset
    /\ init_pc = "returned"
    /\ setup_pc = "done"
    /\ model = default_model
    /\ similarity_index = Some(WordEmbeddingSimilarityIndex(default_model))
    /\ model_ready = TRUE
    /\ stopwords = Some(nltk_stop_words)
    /\ dictionary = Unset
    /\ tfidf = Unset
    /\ similarity_matrix = Unset
    /\ pc = [t \in Callers |-> "idle"]
    /\ frame = [t \in Callers |-> NoFrame]

\* Two threads call similarity_query on the ready engine, once each, with
\* their steps interleaved.
ConcNext ==
    \E t \in Callers :
        \/ QueryBuild(t)
        \/ QueryScore(t)
        \/ QueryExplain(t)
    
ConcSpec == ConcInit /\ [][ConcNext]_vars

\* The background loader is scheduled: a started thread runs to its end.
Loader ==
    SetupLoadModel \/ SetupUnsupported \/ SetupSimilarityIndex \/ SetupReady

FairSpec == Spec /\ WF_vars(Loader)

-----------------------------------------------------------------------------
(* The claims *)

Returned(t) == pc[t] = "returned" /\ frame[t].ret = "list"

Unsupported(m) == ~IsKeyedVectors(m) /\ ~IsStr(m) /\ m # "None"

\* C1: a similarity_query call made while model_ready is false returns None
\* in that one step, and leaves self.dictionary, self.tfidf and
\* self.similarity_matrix as they were.
C1_NotReadyReturnsNone ==
    [][\A t \in Callers :
          (pc[t] = "idle" /\ pc'[t] # "idle" /\ ~model_ready) =>
              /\ pc'[t] = "returned"
              /\ frame'[t].ret = "None"
              /\ frame'[t].results = <<>>
              /\ dictionary' = dictionary
              /\ tfidf' = tfidf
              /\ similarity_matrix' = similarity_matrix]_vars

\* C1's case: a caller of a DocSim_threaded engine whose setup_model has not
\* finished holds None.
C1_Witness ==
    \E t \in Callers :
        /\ cls = "DocSim_threaded"
        /\ setup_pc \in {"load", "index", "ready"}
        /\ ~model_ready
        /\ pc[t] = "returned"
        /\ frame[t].ret = "None"

\* C2: the returned list is ordered by score descending, and documents of
\* equal score appear in ascending order of their index.
C2_SortedTiesAscending ==
    \A t \in Callers :
        Returned(t) =>
            \A i, j \in DOMAIN frame[t].results :
                i < j =>
                    LET a == frame[t].results[i]
                        b == frame[t].results[j]
                    IN  a[2] > b[2] \/ (a[2] = b[2] /\ a[1] < b[1])

\* C3: with a model argument that is neither None, a name nor a keyed-vectors
\* object, the constructor of either class does not return normally.
C3_UnsupportedModelFailsConstruction ==
    Unsupported(model_arg) => init_pc # "returned"

\* C4: the dictionary, tfidf model and similarity matrix a call uses for
\* scoring and for explanation are the ones that same call built.
C4_CallUsesWhatItBuilt ==
    \A t \in Callers :
        pc[t] \in {"built", "scored"} =>
            LET dict == Dictionary(BuildDocuments(frame[t].corpus, frame[t].query))
            IN  /\ dictionary = Some(dict)
                /\ tfidf = Some(TfidfModel(dict))
                /\ similarity_matrix =
                       Some(SparseTermSimilarityMatrix(similarity_index[1], dict,
                                                       TfidfModel(dict),
                                                       nonzero_limit))

\* C5: with explain=True the call returns one tuple per document, and the
\* tuples without their third component are the (index, score) list of the
\* call without explain.
C5_ExplainOnlyExtends ==
    \A t \in Callers :
        (Returned(t) /\ frame[t].explain) =>
            LET f == frame[t]
                pairs == [i \in 1..Len(f.results) |->
                             <<f.results[i][1], f.results[i][2]>>]
                sorted_scores == [i \in 1..Len(f.sorted_indexes) |->
                                     f.scores[f.sorted_indexes[i] + 1]]
            IN  /\ Len(f.results) = Len(f.documents)
                /\ pairs = Zip2(f.sorted_indexes, sorted_scores)

\* C6: every term of the explanation in a result tuple (i, score, terms)
\* occurs in the normalized tokens of document i.
C6_ExplanationOfItsDocument ==
    \A t \in Callers :
        (Returned(t) /\ frame[t].explain) =>
            \A r \in Range(frame[t].results) :
                \A term \in Range(r[3]) :
                    term[1] \in Range(frame[t].corpus[r[1] + 1])

\* C7: a constructed DocSim_threaded engine eventually has model_ready true,
\* whatever its model argument, and model_ready never goes back to false.
C7_EventuallyReady ==
    /\ [](cls = "DocSim_threaded" /\ init_pc = "returned" => <>model_ready)
    /\ [][model_ready => model_ready']_vars

\* C8: in a call that no other call interleaves with, every term that
\* _find_similar_terms looks up is in the dictionary, and no lookup fails.
C8_LookupsAreKnown ==
    \A t \in Callers :
        /\ (pc[t] = "scored" =>
               Range(frame[t].query) \cup Range(Flatten(frame[t].corpus))
                   \subseteq DOMAIN dictionary[1].token2id)
        /\ frame[t].ret # "KeyError"

\* C8's case: a call with explain returned an explanation that holds a term.
C8_Witness ==
    \E t \in Callers :
        /\ Returned(t)
        /\ frame[t].explain
        /\ frame[t].query # <<>>
        /\ \E r \in Range(frame[t].results) : r[3] # <<>>

\* C9: model_ready is true only if self.model and self.similarity_index have
\* been assigned.
C9_ReadyImpliesCapability ==
    model_ready => (model # "unset" /\ similarity_index # Unset)

\* C9's case: a query on a DocSim_threaded engine saw model_ready true and
\* built its structures from the similarity index.
C9_Witness ==
    \E t \in Callers :
        /\ cls = "DocSim_threaded"
        /\ model_ready
        /\ pc[t] = "built"

\* C10: after the constructor returns, self.stopwords is the default set when
\* None was passed and the supplied collection otherwise, and no call fails
\* for the lack of it.
C10_StopwordsConfigured ==
    /\ init_pc = "returned" =>
           stopwords = (IF stopwords_arg = Unset THEN Some(nltk_stop_words)
                        ELSE stopwords_arg)
    /\ \A t \in Callers : frame[t].ret # "AttributeError"

=============================================================================
